---- MODULE Spec2Model ----
(***************************************************************************)
(* Audify.AI backend: the job table JOBS, the create_job / get_job         *)
(* endpoints and the job_worker pipeline of backend/app.py, with the       *)
(* request-time and stage-time validation of tts_local.py,                 *)
(* translate_marianmt.py and audio_stems.py.                               *)
(*                                                                         *)
(* Granularity: CPython executes one dict write (JOBS[id][k] = v,          *)
(* JOBS[id].update({...})) atomically, so every worker action is the code  *)
(* between two writes of the job record, ending with the write.  External  *)
(* stage calls either return or raise; which one is a nondeterministic     *)
(* choice.  Times are whole seconds; Optional[float] is <<>> (None) or     *)
(* <<v>>.                                                                  *)
(***************************************************************************)
EXTENDS Integers, Sequences, FiniteSets, TLC

VARIABLES
    workload,   \* which bounded workload the environment submits
    JOBS,       \* app.JOBS: job id -> job record (a dict with a growing key set)
    req,        \* one create_job request per slot: position, arguments, response
    thread,     \* one job_worker thread per request slot: position and locals
    files,      \* files under RUNS/<job_id>
    writers,    \* per job id, the threads that have written its record
    lastRead,   \* the last answer of get_job
    call        \* one application of an audio helper: function, arguments, result

vars == <<workload, JOBS, req, thread, files, writers, lastRead, call>>

-----------------------------------------------------------------------------
(* Bounds *)

MaxJobs == 2        \* concurrent create_job requests in the "concurrent" workload
MaxSegs == 2        \* transcribed segments per job in the "single" workload

NoneT == <<>>
Some(v) == <<v>>

Workloads == {"concurrent", "single"}

Slots(w) == IF w = "concurrent" THEN 1..MaxJobs ELSE {1}
AllSlots == 1..MaxJobs
JobIds == 1..MaxJobs

LanguageInputs(w) ==
    IF w = "concurrent" THEN {"Spanish", "Klingon"}
    ELSE {"Spanish", "French", "German", "Italian", "Klingon"}
StartInputs(w) == IF w = "concurrent" THEN {NoneT} ELSE {NoneT, Some(-1), Some(1)}
EndInputs(w) == IF w = "concurrent" THEN {NoneT} ELSE {NoneT, Some(-1), Some(1), Some(2)}
SegCounts(w) == IF w = "concurrent" THEN {0, 1} ELSE 0..MaxSegs
PollInputs(w) == IF w = "concurrent" THEN {} ELSE JobIds
SpeakerInputs(w) == IF w = "concurrent" THEN {"voice1"} ELSE {"voice1", "voice2"}
\* F0 windows of a segment (Hz, 0 = unvoiced): empty, 1, 2 and 3 voiced samples.
F0Windows(w) ==
    IF w = "concurrent" THEN {<<220, 220, 220>>}
    ELSE {<<>>, <<0, 220>>, <<220, 0, 220>>, <<220, 220, 220>>}

-----------------------------------------------------------------------------
(* Program constants *)

LANG_CODE_MAP == [Spanish |-> "es", French |-> "fr", German |-> "de"]

MARIAN_MODELS ==
    [Spanish |-> "Helsinki-NLP/opus-mt-en-es", French |-> "Helsinki-NLP/opus-mt-en-fr",
     German |-> "Helsinki-NLP/opus-mt-en-de", Italian |-> "Helsinki-NLP/opus-mt-en-it",
     Portuguese |-> "Helsinki-NLP/opus-mt-en-pt", Dutch |-> "Helsinki-NLP/opus-mt-en-nl",
     Russian |-> "Helsinki-NLP/opus-mt-en-ru", Japanese |-> "Helsinki-NLP/opus-mt-en-jap",
     Korean |-> "Helsinki-NLP/opus-mt-en-ko", Chinese |-> "Helsinki-NLP/opus-mt-en-zh"]

SUPPORTED_LANGUAGES_fromMarian == DOMAIN MARIAN_MODELS
SUPPORTED_LANGUAGES == DOMAIN LANG_CODE_MAP

PROXY_TTS_PROGRESS_START == 75
PROXY_TTS_PROGRESS_END == 87

-----------------------------------------------------------------------------
(* Pure helpers *)

\* Python round(): nearest integer, ties to the even one; num/den with den > 0.
RoundHalfEven(num, den) ==
    LET q == num \div den
        r == num % den
    IN  IF 2 * r < den THEN q
        ELSE IF 2 * r > den THEN q + 1
        ELSE IF q % 2 = 0 THEN q ELSE q + 1

Clamp01Num(done, total) == IF done < 0 THEN 0 ELSE IF done > total THEN total ELSE done

_proxy_tts_progress_fromStart(done, total) ==
    IF total <= 0 THEN PROXY_TTS_PROGRESS_START
    ELSE (PROXY_TTS_PROGRESS_START * total
            + Clamp01Num(done, total) * (PROXY_TTS_PROGRESS_END - PROXY_TTS_PROGRESS_START))
         \div total

_proxy_tts_progress(done, total) ==
    IF total <= 0 THEN PROXY_TTS_PROGRESS_END
    ELSE RoundHalfEven(
            PROXY_TTS_PROGRESS_START * total
              + Clamp01Num(done, total) * (PROXY_TTS_PROGRESS_END - PROXY_TTS_PROGRESS_START),
            total)

\* dict.update: keys of upd overwrite, the other keys of rec are kept.
Update(rec, upd) == upd @@ rec

\* repr(e) of an exception with one string argument.
Repr(e) == e.type \o "('" \o e.msg \o "')"

Exc(type, msg) == [type |-> type, msg |-> msg]

ProxyStage(done, total) == "proxy_tts (" \o ToString(done) \o "/" \o ToString(total) \o ")"

-----------------------------------------------------------------------------
(* Job record writes of create_job and job_worker *)

QueuedRecord(language) ==
    [status |-> "queued", stage |-> "queued", progress |-> 0, target_language |-> language]

SeparatingWrite(rec) == [rec EXCEPT !.status = "separating"]

SeparatedUpdate == [stage |-> "transcribing", progress |-> 35]

TranscribingUpdate_skips == [status |-> "translating", stage |-> "transcribing", progress |-> 50]
TranscribingUpdate == [status |-> "transcribing", stage |-> "transcribing", progress |-> 50]

TranslatingUpdate == [status |-> "translating", stage |-> "translating", progress |-> 60]

ProxyTtsUpdate == [status |-> "proxy_tts", stage |-> "proxy_tts", progress |-> 75]

ProxyLoopStartUpdate(total) ==
    [status |-> "proxy_tts", stage |-> ProxyStage(0, total),
     progress |-> _proxy_tts_progress(0, total),
     proxy_segments_done |-> 0, proxy_segments_total |-> total]

ProxySegmentUpdate(i, total, nrendered) ==
    [status |-> "proxy_tts", stage |-> ProxyStage(i, total),
     progress |-> _proxy_tts_progress(i, total),
     proxy_segments_done |-> i, proxy_segments_total |-> total,
     proxy_rendered_segments |-> nrendered]

SvcUpdate == [status |-> "svc", stage |-> "svc", progress |-> 88]

SelectedVoiceUpdate(voice) == [selected_voice |-> voice]

MixingUpdate == [status |-> "mixing", stage |-> "mixing", progress |-> 95]

DoneUpdate_noMix(job_id, language, segments, voice) ==
    [status |-> "done", stage |-> "done", progress |-> 100,
     vocals_url |-> "/files/" \o ToString(job_id) \o "/v_translated_vocals.wav",
     instrumental_url |-> "/files/" \o ToString(job_id) \o "/instrumental.wav",
     target_language |-> language, segments |-> segments,
     selected_voice |-> voice, words |-> <<>>]
DoneUpdate(job_id, language, segments, voice) ==
    [status |-> "done", stage |-> "done", progress |-> 100,
     vocals_url |-> "/files/" \o ToString(job_id) \o "/v_translated_vocals.wav",
     instrumental_url |-> "/files/" \o ToString(job_id) \o "/instrumental.wav",
     mix_url |-> "/files/" \o ToString(job_id) \o "/final_mix.wav",
     target_language |-> language, segments |-> segments,
     selected_voice |-> voice, words |-> <<>>]

ErrorUpdate_resetsProgress(e) ==
    [status |-> "error", stage |-> "error", progress |-> 0, error |-> Repr(e)]
ErrorUpdate_str(e) == [status |-> "error", stage |-> "error", error |-> e.msg]
ErrorUpdate(e) == [status |-> "error", stage |-> "error", error |-> Repr(e)]

\* str(uuid.uuid4()) in request r: every call returns an id of its own.  Ids are
\* opaque keys, so the id drawn by request r is written r.
NewJobId_collides(r) == JobIds
NewJobId(r) == {r}

-----------------------------------------------------------------------------
(* Stage-time validation *)

\* _parse_time_seconds raises ValueError on a negative value.
ParseTimeRaises(value) == value # NoneT /\ value[1] < 0

\* _trim_audio_ffmpeg returns the input itself when no window is given.
NeedsTrim(start_time, end_time) == ~(start_time = NoneT /\ end_time = NoneT)

TrimWindowRaises(start_time, end_time) ==
    end_time # NoneT /\ start_time # NoneT /\ end_time[1] <= start_time[1]

-----------------------------------------------------------------------------
(* Files under the job directory *)

F_INPUT == "input"
F_TRIMMED == "stems/input.trimmed.wav"
F_STEM_VOCALS == "stems/vocals.mp3"
F_STEM_INST == "stems/no_vocals.mp3"
F_VOCALS == "vocals.wav"
F_INST == "instrumental.wav"
F_PROXY_FULL == "proxy_full.wav"
F_SVC == "v_translated_vocals.wav"
F_MIX == "final_mix.wav"

SegDir(i) == "proxy_segments/" \o ToString(i - 1)
SegFile(i, name) == SegDir(i) \o "/" \o name

SegKinds == {"lyric", "blank", "junk"}

-----------------------------------------------------------------------------
(* Initial state *)

IdleRequest ==
    [pc |-> "idle", language |-> "", start_time |-> NoneT, end_time |-> NoneT,
     job_id |-> 0, response |-> [code |-> 0, job_id |-> 0]]

NoThread ==
    [pc |-> "none", job_id |-> 0, start_time |-> NoneT, end_time |-> NoneT,
     target_language |-> "", segments |-> <<>>, i |-> 0, rendered |-> <<>>,
     voiced |-> 0, proxy_full |-> <<>>, selected_voice |-> ""]

NOT_FOUND == [status |-> "not_found"]

\* No function of the audio helpers is being applied on its own.
NoCall == [fn |-> "", done |-> FALSE]

Init ==
    /\ workload \in Workloads
    /\ JOBS = [j \in {} |-> QueuedRecord("")]
    /\ req = [r \in AllSlots |-> IdleRequest]
    /\ thread = [r \in AllSlots |-> NoThread]
    /\ files = [j \in JobIds |-> {}]
    /\ writers = [j \in JobIds |-> {}]
    /\ lastRead = [job_id |-> 0, rec |-> NOT_FOUND]
    /\ call = NoCall

-----------------------------------------------------------------------------
(* create_job *)

CreatorOf(r) == <<"create_job", r>>
WorkerOf(r) == <<"job_worker", r>>

CreateJobReject(r) ==
    /\ req[r].pc = "idle"
    /\ \E language \in LanguageInputs(workload),
          start_time \in StartInputs(workload), end_time \in EndInputs(workload) :
        /\ language \notin SUPPORTED_LANGUAGES
        /\ req' = [req EXCEPT ![r] = [@ EXCEPT !.pc = "rejected", !.language = language,
                                        !.start_time = start_time, !.end_time = end_time,
                                        !.response = [code |-> 400, job_id |-> 0]]]
    /\ UNCHANGED <<workload, call, JOBS, thread, files, writers, lastRead>>

CreateJobInsert(r) ==
    /\ req[r].pc = "idle"
    /\ \E language \in LanguageInputs(workload),
          start_time \in StartInputs(workload), end_time \in EndInputs(workload),
          job_id \in NewJobId(r) :
        /\ language \in SUPPORTED_LANGUAGES
        /\ JOBS' = (job_id :> QueuedRecord(language)) @@ JOBS
        /\ writers' = [writers EXCEPT ![job_id] = @ \cup {CreatorOf(r)}]
        /\ req' = [req EXCEPT ![r] = [@ EXCEPT !.pc = "L283", !.language = language,
                                        !.start_time = start_time, !.end_time = end_time,
                                        !.job_id = job_id]]
    /\ UNCHANGED <<workload, call, thread, files, lastRead>>

\* job_dir.mkdir, file.read and write_bytes succeed.
CreateJobUpload(r) ==
    /\ req[r].pc = "L283"
    /\ files' = [files EXCEPT ![req[r].job_id] = @ \cup {F_INPUT}]
    /\ req' = [req EXCEPT ![r].pc = "L285"]
    /\ UNCHANGED <<workload, call, JOBS, thread, writers, lastRead>>

\* job_dir.mkdir, file.read or write_bytes raises: the request ends with a 500.
CreateJobUploadFail(r) ==
    /\ req[r].pc = "L283"
    /\ req' = [req EXCEPT ![r] = [@ EXCEPT !.pc = "failed",
                                        !.response = [code |-> 500, job_id |-> 0]]]
    /\ UNCHANGED <<workload, call, JOBS, thread, files, writers, lastRead>>

CreateJobStart(r) ==
    /\ req[r].pc = "L285"
    /\ thread' = [thread EXCEPT ![r] =
                    [NoThread EXCEPT !.pc = "L116", !.job_id = req[r].job_id,
                                     !.start_time = req[r].start_time,
                                     !.end_time = req[r].end_time,
                                     !.target_language = req[r].language]]
    /\ req' = [req EXCEPT ![r] = [@ EXCEPT !.pc = "returned",
                                        !.response = [code |-> 200, job_id |-> req[r].job_id]]]
    /\ UNCHANGED <<workload, call, JOBS, files, writers, lastRead>>

\* Thread.start raises RuntimeError (no new thread can be started).
CreateJobStartFail(r) ==
    /\ req[r].pc = "L285"
    /\ req' = [req EXCEPT ![r] = [@ EXCEPT !.pc = "failed",
                                        !.response = [code |-> 500, job_id |-> 0]]]
    /\ UNCHANGED <<workload, call, JOBS, thread, files, writers, lastRead>>

-----------------------------------------------------------------------------
(* get_job *)

GetJob(job_id) ==
    /\ lastRead' = [job_id |-> job_id,
                    rec |-> IF job_id \in DOMAIN JOBS THEN JOBS[job_id] ELSE NOT_FOUND]
    /\ UNCHANGED <<workload, call, JOBS, req, thread, files, writers>>

-----------------------------------------------------------------------------
(* job_worker *)

\* JOBS[job_id]: the record the worker addresses is the one of its job_id argument.
JobOf_latest(r) == CHOOSE j \in DOMAIN JOBS : \A other \in DOMAIN JOBS : other <= j
JobOf(r) == thread[r].job_id

\* One write of the worker to the record of the job id it was started with.
WriteJob(r, rec) ==
    /\ JOBS' = [JOBS EXCEPT ![JobOf(r)] = rec]
    /\ writers' = [writers EXCEPT ![JobOf(r)] = @ \cup {WorkerOf(r)}]

\* except Exception as e: the handler writes the error and the thread ends.
Raise(r, e, newfiles) ==
    /\ WriteJob(r, Update(JOBS[JobOf(r)], ErrorUpdate(e)))
    /\ thread' = [thread EXCEPT ![r].pc = "exit"]
    /\ files' = [files EXCEPT ![JobOf(r)] = newfiles]
    /\ UNCHANGED <<workload, call, req, lastRead>>

Separating(r) ==
    /\ thread[r].pc = "L116"
    /\ WriteJob(r, SeparatingWrite(JOBS[JobOf(r)]))
    /\ thread' = [thread EXCEPT ![r].pc = "L117"]
    /\ UNCHANGED <<workload, call, req, files, lastRead>>

\* seperate_stems_demucs up to the return of _trim_audio_ffmpeg.
TrimInput(r) ==
    LET t == thread[r]
        f == files[JobOf(r)]
    IN  /\ t.pc = "L117"
        /\ IF ParseTimeRaises(t.start_time)
             THEN Raise(r, Exc("ValueError", "start_time must be >= 0"), f)
           ELSE IF ParseTimeRaises(t.end_time)
             THEN Raise(r, Exc("ValueError", "end_time must be >= 0"), f)
           ELSE IF ~NeedsTrim(t.start_time, t.end_time)
             THEN /\ thread' = [thread EXCEPT ![r].pc = "L100"]
                  /\ UNCHANGED <<workload, call, JOBS, req, files, writers, lastRead>>
           ELSE IF TrimWindowRaises(t.start_time, t.end_time)
             THEN Raise(r, Exc("ValueError", "end_time must be greater than start_time"), f)
           ELSE \/ /\ thread' = [thread EXCEPT ![r].pc = "L100"]
                   /\ files' = [files EXCEPT ![JobOf(r)] = f \cup {F_TRIMMED}]
                   /\ UNCHANGED <<workload, call, JOBS, req, writers, lastRead>>
                \/ Raise(r, Exc("RuntimeError", "ffmpeg trim failed"), f)

\* The demucs run, the finally clause that unlinks the trimmed input, and the
\* update that follows the return of seperate_stems_demucs.
Demucs(r) ==
    LET f == files[JobOf(r)] \ {F_TRIMMED}
    IN  /\ thread[r].pc = "L100"
        /\ \/ /\ WriteJob(r, Update(JOBS[JobOf(r)], SeparatedUpdate))
              /\ files' = [files EXCEPT ![JobOf(r)] = f \cup {F_STEM_VOCALS, F_STEM_INST}]
              /\ thread' = [thread EXCEPT ![r].pc = "L126"]
              /\ UNCHANGED <<workload, call, req, lastRead>>
           \/ Raise(r, Exc("RuntimeError", "Demucs failed"), f)
           \/ Raise(r, Exc("FileNotFoundError", "Missing instrumental stem"),
                    f \cup {F_STEM_VOCALS})

CopyStems(r) ==
    LET f == files[JobOf(r)]
    IN  /\ thread[r].pc = "L126"
        /\ \/ /\ WriteJob(r, Update(JOBS[JobOf(r)], TranscribingUpdate))
              /\ files' = [files EXCEPT ![JobOf(r)] = f \cup {F_VOCALS, F_INST}]
              /\ thread' = [thread EXCEPT ![r].pc = "L132"]
              /\ UNCHANGED <<workload, call, req, lastRead>>
           \/ Raise(r, Exc("OSError", "copy failed"), f)
           \/ Raise(r, Exc("OSError", "copy failed"), f \cup {F_VOCALS})

\* transcribe_with_whisper returns only segments with non-empty text.
Transcribe(r) ==
    /\ thread[r].pc = "L132"
    /\ \/ \E n \in SegCounts(workload) :
            /\ WriteJob(r, Update(JOBS[JobOf(r)], TranslatingUpdate))
            /\ thread' = [thread EXCEPT ![r].pc = "L135",
                                        ![r].segments = [k \in 1..n |-> "text"]]
            /\ UNCHANGED <<workload, call, req, files, lastRead>>
       \/ Raise(r, Exc("RuntimeError", ""), files[JobOf(r)])

\* translate_segments, then extract_f0_pyworld.  Each segment comes back with
\* language = target_language and a translated text that is usable ("lyric"),
\* empty ("blank") or emptied by clean_for_tts ("junk").
Translate(r) ==
    LET t == thread[r]
        f == files[JobOf(r)]
    IN  /\ t.pc = "L135"
        /\ IF t.target_language \notin DOMAIN MARIAN_MODELS
             THEN Raise(r, Exc("ValueError",
                               "Unsupported target_language=" \o t.target_language), f)
           ELSE \/ \E segs \in [1..Len(t.segments) -> SegKinds] :
                     /\ WriteJob(r, Update(JOBS[JobOf(r)], ProxyTtsUpdate))
                     /\ thread' = [thread EXCEPT ![r].pc = "L147", ![r].segments = segs]
                     /\ UNCHANGED <<workload, call, req, files, lastRead>>
                \/ Raise(r, Exc("RuntimeError", "translation failed"), f)
                \/ Raise(r, Exc("RuntimeError", "f0 extraction failed"), f)

ProxyStart(r) ==
    LET t == thread[r]
    IN  /\ t.pc = "L147"
        /\ \/ /\ WriteJob(r, Update(JOBS[JobOf(r)], ProxyLoopStartUpdate(Len(t.segments))))
              /\ thread' = [thread EXCEPT ![r].pc = "L165", ![r].i = 0,
                                          ![r].rendered = <<>>]
              /\ UNCHANGED <<workload, call, req, files, lastRead>>
           \/ Raise(r, Exc("OSError", "mkdir failed"), files[JobOf(r)])

\* tts_to_wav rejects a language outside LANG_CODE_MAP.
TtsLanguageRaises(language) == language \notin DOMAIN LANG_CODE_MAP

\* str.strip on the translated text of a segment: "" for a text of whitespace.
strip(text) == IF text = "blank" THEN "" ELSE text

\* clean_for_tts: a text made of bracketed directions or symbols becomes "".
clean_for_tts(text) == IF text \in {"blank", "junk"} THEN "" ELSE text

\* The second "if text:" of the loop body, on the cleaned text.
CleanedIsEmpty_unchecked(text) == FALSE
CleanedIsEmpty(text) == clean_for_tts(text) = ""

\* tts_to_wav strips its text and raises on an empty one.
TtsEmptyTextRaises(text) == strip(text) = ""
EmptyTextError == Exc("ValueError", "Empty text passed to tts_to_wav")

\* (f0_seg > 0).sum(): the number of voiced samples of an F0 window.
VoicedCount(f0_seg) == Cardinality({k \in DOMAIN f0_seg : f0_seg[k] > 0})

\* if (f0_seg > 0).sum() < 3: the window has no pitch to impose.
TooFewVoiced_one(f0_seg) == VoicedCount(f0_seg) < 1
TooFewVoiced(f0_seg) == VoicedCount(f0_seg) < 3

\* The bytes of tts_stretch.wav of segment i and the bytes apply_f0_world
\* writes for it.
StretchAudio(i) == <<"tts_stretch", i>>
WorldAudio(i) == <<"apply_f0_world", i>>
PitchError == Exc("RuntimeError", "pitch transplant failed")

\* One iteration of the segment loop and the update that ends it.
RenderSegment(r) ==
    LET t == thread[r]
        f == files[JobOf(r)]
        i == t.i + 1
        total == Len(t.segments)
        Advance(rendered, voiced, newfiles) ==
            /\ WriteJob(r, Update(JOBS[JobOf(r)],
                                  ProxySegmentUpdate(i, total, Len(rendered))))
            /\ thread' = [thread EXCEPT ![r].i = i, ![r].rendered = rendered,
                                        ![r].voiced = voiced]
            /\ files' = [files EXCEPT ![JobOf(r)] = newfiles]
            /\ UNCHANGED <<workload, call, req, lastRead>>
        Render(audio, voiced) ==
            Advance(Append(t.rendered, [seg |-> i, audio |-> audio]),
                    voiced,
                    f \cup {SegFile(i, "tts.wav"), SegFile(i, "tts_stretch.wav"),
                            SegFile(i, "tts_pitched.wav")})
    IN  /\ t.pc = "L165"
        /\ t.i < total
        /\ IF strip(t.segments[i]) = ""
             THEN Advance(t.rendered, t.voiced, f)
           ELSE IF CleanedIsEmpty(t.segments[i])
             THEN Advance(t.rendered, t.voiced, f)
           ELSE IF TtsEmptyTextRaises(clean_for_tts(t.segments[i]))
             THEN Raise(r, EmptyTextError, f)
           ELSE IF TtsLanguageRaises(t.target_language)
             THEN Raise(r, Exc("ValueError", "Unsupported language: " \o t.target_language), f)
           ELSE \/ Raise(r, Exc("RuntimeError", "tts failed"), f)
                \/ Raise(r, Exc("CalledProcessError", "time stretch failed"),
                         f \cup {SegFile(i, "tts.wav")})
                \/ \E f0_seg \in F0Windows(workload) :
                     IF TooFewVoiced(f0_seg)
                       THEN Render(StretchAudio(i), VoicedCount(f0_seg))
                     ELSE \/ Render(WorldAudio(i), VoicedCount(f0_seg))
                          \/ /\ WriteJob(r, Update(JOBS[JobOf(r)], ErrorUpdate(PitchError)))
                             /\ thread' = [thread EXCEPT ![r].pc = "exit",
                                              ![r].voiced = VoicedCount(f0_seg)]
                             /\ files' = [files EXCEPT ![JobOf(r)] =
                                            f \cup {SegFile(i, "tts.wav"),
                                                    SegFile(i, "tts_stretch.wav")}]
                             /\ UNCHANGED <<workload, call, req, lastRead>>

\* "if not rendered:" at the head of _stitch_segments_ffmpeg.
NothingRendered_unchecked(rendered) == FALSE
NothingRendered(rendered) == rendered = <<>>

\* What _stitch_segments_ffmpeg asks of ffmpeg: a silent file of one second
\* (anullsrc, -t 1) or the mix of one delayed input per rendered segment.
PlaceholderSeconds == 1
StitchSource(rendered) ==
    IF NothingRendered(rendered) THEN <<"anullsrc", PlaceholderSeconds>>
    ELSE <<"amix", Len(rendered)>>

\* ffmpeg rejects a filter graph of no inputs (amix=inputs=0).
EmptyMixError == Exc("CalledProcessError", "amix=inputs=0")

\* After the loop: _stitch_segments_ffmpeg, resample_wav and the svc update.
Stitch(r) ==
    LET t == thread[r]
        f == files[JobOf(r)]
        source == StitchSource(t.rendered)
    IN  /\ t.pc = "L165"
        /\ t.i = Len(t.segments)
        /\ IF source = <<"amix", 0>>
             THEN Raise(r, EmptyMixError, f)
           ELSE
           \/ /\ WriteJob(r, Update(JOBS[JobOf(r)], SvcUpdate))
              /\ files' = [files EXCEPT ![JobOf(r)] = f \cup {F_PROXY_FULL}]
              /\ thread' = [thread EXCEPT ![r].pc = "L227", ![r].proxy_full = source]
              /\ UNCHANGED <<workload, call, req, lastRead>>
           \/ Raise(r, Exc("CalledProcessError", "stitch failed"), f)
           \/ Raise(r, Exc("CalledProcessError", "resample failed"), f \cup {F_PROXY_FULL})

\* What get_available_speakers (a config.json that holds a JSON array: data.get
\* raises AttributeError outside its try) or select_closest_speaker (librosa.load
\* of an unreadable reference wav in _compute_embedding) raises.
SpeakerSelectionError == Exc("RuntimeError", "speaker selection failed")

\* get_available_speakers and select_closest_speaker are called inside the try
\* block of job_worker with no handler of their own.
SelectVoice(r) ==
    /\ thread[r].pc = "L227"
    /\ \/ \E voice \in SpeakerInputs(workload) :
            /\ WriteJob(r, Update(JOBS[JobOf(r)], SelectedVoiceUpdate(voice)))
            /\ thread' = [thread EXCEPT ![r].pc = "L231", ![r].selected_voice = voice]
            /\ UNCHANGED <<workload, call, req, files, lastRead>>
       \/ Raise(r, SpeakerSelectionError, files[JobOf(r)])

VoiceConvert(r) ==
    LET f == files[JobOf(r)]
    IN  /\ thread[r].pc = "L231"
        /\ \/ /\ WriteJob(r, Update(JOBS[JobOf(r)], MixingUpdate))
              /\ files' = [files EXCEPT ![JobOf(r)] = f \cup {F_SVC}]
              /\ thread' = [thread EXCEPT ![r].pc = "L235"]
              /\ UNCHANGED <<workload, call, req, lastRead>>
           \/ Raise(r, Exc("CalledProcessError", "so-vits inference failed"), f)

Mix(r) ==
    LET t == thread[r]
        f == files[JobOf(r)]
    IN  /\ t.pc = "L235"
        /\ \/ /\ WriteJob(r, Update(JOBS[JobOf(r)],
                                    DoneUpdate(t.job_id, t.target_language,
                                               t.segments, t.selected_voice)))
              /\ files' = [files EXCEPT ![JobOf(r)] = f \cup {F_MIX}]
              /\ thread' = [thread EXCEPT ![r].pc = "exit"]
              /\ UNCHANGED <<workload, call, req, lastRead>>
           \/ Raise(r, Exc("CalledProcessError", "mixdown failed"), f)

\* subprocess.run is called without a timeout argument: the demucs run
\* (audio_stems.py:104), the ffmpeg run of time_stretch_to_duration for a segment
\* that is rendered (audio_ops.py:73) and the so-vits inference
\* (svc_infer.py:128) return only when the child process ends.  When the child
\* never ends the worker stays inside the call.
InSubprocess(r) ==
    LET t == thread[r]
    IN  \/ t.pc = "L100"
        \/ t.pc = "L231"
        \/ /\ t.pc = "L165"
           /\ t.i < Len(t.segments)
           /\ t.segments[t.i + 1] = "lyric"
           /\ ~TtsLanguageRaises(t.target_language)

SubprocessNeverReturns(r) ==
    /\ InSubprocess(r)
    /\ thread' = [thread EXCEPT ![r].pc = "hung"]
    /\ UNCHANGED <<workload, call, JOBS, req, files, writers, lastRead>>

-----------------------------------------------------------------------------
(* Specification *)

Next ==
    \/ \E r \in Slots(workload) : CreateJobReject(r)
    \/ \E r \in Slots(workload) : CreateJobInsert(r)
    \/ \E r \in Slots(workload) : CreateJobUpload(r)
    \/ \E r \in Slots(workload) : CreateJobUploadFail(r)
    \/ \E r \in Slots(workload) : CreateJobStart(r)
    \/ \E r \in Slots(workload) : CreateJobStartFail(r)
    \/ \E job_id \in PollInputs(workload) : GetJob(job_id)
    \/ \E r \in Slots(workload) : Separating(r)
    \/ \E r \in Slots(workload) : TrimInput(r)
    \/ \E r \in Slots(workload) : Demucs(r)
    \/ \E r \in Slots(workload) : CopyStems(r)
    \/ \E r \in Slots(workload) : Transcribe(r)
    \/ \E r \in Slots(workload) : Translate(r)
    \/ \E r \in Slots(workload) : ProxyStart(r)
    \/ \E r \in Slots(workload) : RenderSegment(r)
    \/ \E r \in Slots(workload) : Stitch(r)
    \/ \E r \in Slots(workload) : SelectVoice(r)
    \/ \E r \in Slots(workload) : VoiceConvert(r)
    \/ \E r \in Slots(workload) : Mix(r)
    \/ \E r \in Slots(workload) : SubprocessNeverReturns(r)

Spec == Init /\ [][Next]_vars

\* The steps a worker thread takes by itself once it is started: the interpreter
\* schedules every live thread, so a step that stays possible is taken.
WorkerStep(r) ==
    \/ Separating(r) \/ TrimInput(r) \/ Demucs(r) \/ CopyStems(r)
    \/ Transcribe(r) \/ Translate(r) \/ ProxyStart(r) \/ RenderSegment(r)
    \/ Stitch(r) \/ SelectVoice(r) \/ VoiceConvert(r) \/ Mix(r)

FairSpec == Spec /\ \A r \in AllSlots : WF_vars(WorkerStep(r))

-----------------------------------------------------------------------------
(* The audio helpers, applied on their own *)

Max(a, b) == IF a >= b THEN a ELSE b
Min(a, b) == IF a <= b THEN a ELSE b
Abs(a) == IF a >= 0 THEN a ELSE -a

\* Longest contour and last sample time (in hops of the F0 grid) of the inputs.
MaxT == 3

\* Strictly increasing sample times over 0..MaxT.
IsStrictlyIncreasing(t) == \A k \in 1..(Len(t) - 1) : t[k] < t[k + 1]
TimeAxes ==
    {t \in UNION {[1..n -> 0..MaxT] : n \in 0..(MaxT + 1)} : IsStrictlyIncreasing(t)}
\* The F0 value (Hz) of the sample taken at a time: odd times are unvoiced.
F0At(time) == IF time % 2 = 1 THEN 0 ELSE 200 + time
SliceInputs ==
    {[f0 |-> [k \in DOMAIN t |-> F0At(t[k])], t |-> t, start_s |-> s, end_s |-> e] :
        t \in TimeAxes, s \in (-1)..MaxT, e \in 0..(MaxT + 1)}

\* np.searchsorted on a sorted array: the leftmost ("left") or rightmost
\* ("right") index at which v can be inserted, counted from 0.
searchsorted_right(a, v, side) == Cardinality({k \in DOMAIN a : a[k] <= v})
searchsorted(a, v, side) ==
    IF side = "left" THEN Cardinality({k \in DOMAIN a : a[k] < v})
    ELSE Cardinality({k \in DOMAIN a : a[k] <= v})

\* a[i0:i1] with indices counted from 0.
Slice(a, i0, i1) ==
    LET lo == Min(i0, Len(a))
        hi == Min(i1, Len(a))
    IN  [k \in 1..Max(0, hi - lo) |-> a[lo + k]]

_slice_f0_window(f0, t, start_s, end_s) ==
    LET i0 == searchsorted(t, start_s, "left")
        i1 == searchsorted(t, end_s, "left")
        t_seg == Slice(t, i0, i1)
    IN  [f0 |-> Slice(f0, i0, i1), t |-> [k \in DOMAIN t_seg |-> t_seg[k] - start_s]]

SliceCall ==
    /\ call.fn = "_slice_f0_window" /\ ~call.done
    /\ call' = [call EXCEPT !.done = TRUE,
                            !.ret = _slice_f0_window(call.args.f0, call.args.t,
                                                     call.args.start_s, call.args.end_s)]
    /\ UNCHANGED <<workload, JOBS, req, thread, files, writers, lastRead>>

\* Most rendered segments of one stitch, their latest start (ms) and their
\* longest audio (ms).
MaxRendered == 2
MaxStartMs == 2
MaxLenMs == 2

\* A rendered segment: its start time in half milliseconds (start_s * 2000, so
\* that starts between two milliseconds occur), the length of its audio in
\* milliseconds and the value of its samples.
RenderedSegments == [start : (-2)..(2 * MaxStartMs), len : 1..MaxLenMs]
\* The value of the samples of the i-th rendered segment.
SampleOf(i) == 10 * i
\* The stitching example: two one-second segments at 0.0 s and 2.0 s.
StitchExample ==
    <<[start |-> 0, len |-> 1000], [start |-> 4000, len |-> 1000]>>
StitchInputs ==
    UNION {[1..n -> RenderedSegments] : n \in 0..MaxRendered} \cup {StitchExample}

\* int(max(0.0, start_s) * 1000): the whole milliseconds of the clamped start.
delay_ms_unclamped(start) == start \div 2
delay_ms(start) == Max(0, start) \div 2

\* The filter graph of the mix: adelay per input, then amix with normalize=0.
_stitch_segments_ffmpeg(rendered) ==
    IF NothingRendered(rendered)
      THEN [source |-> "anullsrc", seconds |-> PlaceholderSeconds]
    ELSE [source |-> "amix", inputs |-> Len(rendered), normalize |-> 0,
          adelay |-> [i \in DOMAIN rendered |-> delay_ms(rendered[i].start)]]

\* ffmpeg: adelay pads an input with silence in front, a negative delay is
\* rejected; amix sums the inputs and divides by their number unless
\* normalize=0; the output lasts as long as the longest delayed input.
RECURSIVE SumOver(_, _)
SumOver(f, n) == IF n = 0 THEN 0 ELSE f[n] + SumOver(f, n - 1)

ffmpeg(cmd, rendered) ==
    IF cmd.source = "anullsrc"
      THEN [raised |-> FALSE, track |-> [m \in 1..(1000 * cmd.seconds) |-> 0]]
    ELSE IF \E i \in DOMAIN cmd.adelay : cmd.adelay[i] < 0
      THEN [raised |-> TRUE, track |-> <<>>]
    ELSE
      LET n == cmd.inputs
          SampleAt(i, m) ==
              IF cmd.adelay[i] < m /\ m <= cmd.adelay[i] + rendered[i].len
                THEN SampleOf(i) ELSE 0
          last(i) == cmd.adelay[i] + rendered[i].len
          duration == CHOOSE d \in {last(i) : i \in 1..n} : \A i \in 1..n : last(i) <= d
          scale == IF cmd.normalize = 0 THEN 1 ELSE n
      IN  [raised |-> FALSE,
           track |-> [m \in 1..duration |->
                        SumOver([i \in 1..n |-> SampleAt(i, m)], n) \div scale]]

StitchCall ==
    /\ call.fn = "_stitch_segments_ffmpeg" /\ ~call.done
    /\ LET cmd == _stitch_segments_ffmpeg(call.args)
       IN  call' = [call EXCEPT !.done = TRUE,
                                !.ret = [cmd |-> cmd, out |-> ffmpeg(cmd, call.args)]]
    /\ UNCHANGED <<workload, JOBS, req, thread, files, writers, lastRead>>

\* Longest audio and longest target of a duration fit, in milliseconds.
MaxDurMs == 50

\* A wav file: its duration as ffprobe reports it (ms), its sample rate and an
\* identity of its bytes.
\* Durations beyond MaxDurMs that give ratios of 5, 8, 10 and 16 against min_dur.
LongDurations == {100, 160, 200, 320}
\* Sample rate and channel count of an input: canonical or not.
Layouts == {[ar |-> 16000, ac |-> 1], [ar |-> 22050, ac |-> 2]}
StretchInputs ==
    {[in_wav |-> [dur |-> d, ar |-> l.ar, ac |-> l.ac, bytes |-> <<"tts">>],
      target_dur_s |-> target] :
        d \in 0..MaxDurMs \cup LongDurations, l \in Layouts, target \in 0..MaxDurMs}

\* min_dur=0.02 and the pass-through threshold 0.005, in milliseconds.
min_dur == 20
PassThroughBelow == 5

\* "If very close, just copy".
VeryClose_equal(current_dur, target_dur_s) == current_dur = target_dur_s
VeryClose(current_dur, target_dur_s) == Abs(current_dur - target_dur_s) < PassThroughBelow

\* The atempo chain for the ratio num/den: factors of 2.0 or 0.5 until the rest
\* lies in 0.5..2.0.
AtempoChain_single(num, den) == <<[num |-> num, den |-> den]>>
RECURSIVE AtempoChain(_, _)
AtempoChain(num, den) ==
    IF num > 2 * den THEN <<[num |-> 2, den |-> 1]>> \o AtempoChain(num, 2 * den)
    ELSE IF 2 * num < den THEN <<[num |-> 1, den |-> 2]>> \o AtempoChain(2 * num, den)
    ELSE <<[num |-> num, den |-> den]>>

time_stretch_to_duration(in_wav, target) ==
    LET target_dur_s == Max(min_dur, target)
        current_dur == in_wav.dur
    IN  IF current_dur <= 0
          THEN [raised |-> TRUE, filters |-> <<>>, out_wav |-> <<>>]
        ELSE IF VeryClose(current_dur, target_dur_s)
          THEN [raised |-> FALSE, filters |-> <<>>, out_wav |-> <<in_wav>>]
        ELSE LET filters == AtempoChain(current_dur, target_dur_s)
             IN  [raised |-> FALSE, filters |-> filters,
                  out_wav |-> <<[dur |-> target_dur_s, ar |-> 16000, ac |-> 1,
                                 bytes |-> <<"atempo", filters, in_wav.bytes>>]>>]

StretchCall ==
    /\ call.fn = "time_stretch_to_duration" /\ ~call.done
    /\ call' = [call EXCEPT !.done = TRUE,
                            !.ret = time_stretch_to_duration(call.args.in_wav,
                                                             call.args.target_dur_s)]
    /\ UNCHANGED <<workload, JOBS, req, thread, files, writers, lastRead>>

\* Most segments of one SSML document.
MaxSsmlSegs == 2

\* A segment dict: a key that is missing reads as "" (seg.get(...) or ...).
SsmlSegments ==
    [translated : {"", "Hola amigo", "a<b"}, text : {"", "hello"},
     language : {"", "fr-FR"}]
\* pause_between: None, a number (what test_segments_to_ssml_basic passes) or a
\* list of numbers.
PauseInputs ==
    {[kind |-> "None"], [kind |-> "float", seconds |-> "0.2"]}
        \cup {[kind |-> "list", value |-> v] : v \in {<<>>, <<"0.2">>, <<"0.2", "0.5">>}}
SsmlInputs ==
    [segments : UNION {[1..n -> SsmlSegments] : n \in 0..MaxSsmlSegs},
     global_lang : {"es-ES"}, pause_between : PauseInputs]

\* html.escape
escape(text) == IF text = "a<b" THEN "a&lt;b" ELSE text

\* a or b, on strings.
Or(a, b) == IF a # "" THEN a ELSE b

\* The loop of segments_to_ssml from segment i (counted from 0) on: the parts
\* appended, or the TypeError of len() applied to a number.
RECURSIVE SsmlParts(_, _, _, _)
SsmlParts(segments, i, global_lang, pause_between) ==
    IF i >= Len(segments) THEN [raised |-> "", parts |-> <<>>]
    ELSE
      LET seg == segments[i + 1]
          text == Or(seg.translated, seg.text)
          rest == SsmlParts(segments, i + 1, global_lang, pause_between)
          voice == [tag |-> "voice", rate |-> "0.6",
                    lang |-> Or(seg.language, global_lang), text |-> escape(text)]
      IN  IF text = "" THEN rest
          ELSE IF pause_between.kind = "float"
            THEN [raised |-> "TypeError", parts |-> <<>>]
          ELSE IF rest.raised # "" THEN rest
          ELSE IF i < Len(pause_between.value)
            THEN [raised |-> "",
                  parts |-> <<voice, [tag |-> "break", time |-> pause_between.value[i + 1]]>>
                                \o rest.parts]
          ELSE [raised |-> "", parts |-> <<voice>> \o rest.parts]

segments_to_ssml(segments, global_lang, pause_between) ==
    LET pauses == IF pause_between.kind = "None" THEN [kind |-> "list", value |-> <<>>]
                  ELSE pause_between
        body == SsmlParts(segments, 0, global_lang, pauses)
    IN  IF body.raised # "" THEN [raised |-> body.raised, ssml |-> <<>>]
        ELSE [raised |-> "",
              ssml |-> <<[tag |-> "<speak>"]>> \o body.parts \o <<[tag |-> "</speak>"]>>]

SsmlCall ==
    /\ call.fn = "segments_to_ssml" /\ ~call.done
    /\ call' = [call EXCEPT !.done = TRUE,
                            !.ret = segments_to_ssml(call.args.segments,
                                                     call.args.global_lang,
                                                     call.args.pause_between)]
    /\ UNCHANGED <<workload, JOBS, req, thread, files, writers, lastRead>>

\* Target contours of a transplant: strictly increasing times over 0..MaxT
\* with an F0 of 0 (unvoiced), 120 or 240 Hz at each, resampled onto the frame
\* grid 0..MaxT+1 of the analyzer.
ResampleInputs ==
    UNION {[f0_src : [DOMAIN t -> {0, 120, 240}], t_src : {t},
            t_dst : {[m \in 1..(MaxT + 2) |-> m - 1]}] : t \in TimeAxes}

\* a[mask]: the elements of a at the indices of K, in order.
RECURSIVE Pick(_, _)
Pick(a, K) ==
    IF K = {} THEN <<>>
    ELSE LET last == CHOOSE k \in K : \A other \in K : other <= k
         IN  Append(Pick(a, K \ {last}), a[last])

\* np.interp(x, xp, fp, left=0.0, right=0.0) at one point x, xp increasing.
interp(x, xp, fp) ==
    IF x < xp[1] \/ x > xp[Len(xp)] THEN 0
    ELSE IF \E j \in DOMAIN xp : xp[j] = x
      THEN fp[CHOOSE j \in DOMAIN xp : xp[j] = x]
    ELSE LET j == CHOOSE j \in 1..(Len(xp) - 1) : xp[j] < x /\ x < xp[j + 1]
         IN  fp[j] + ((fp[j + 1] - fp[j]) * (x - xp[j])) \div (xp[j + 1] - xp[j])

_resample_f0_to_world_frames(f0_src, t_src, t_dst) ==
    LET voiced == {k \in DOMAIN f0_src : f0_src[k] > 0}
        zeros == [m \in DOMAIN t_dst |-> 0]
    IN  IF Len(f0_src) = 0 THEN zeros
        ELSE IF Cardinality(voiced) < 2 THEN zeros
        ELSE LET f0_voiced ==
                     [m \in DOMAIN t_dst |->
                         interp(t_dst[m], Pick(t_src, voiced), Pick(f0_src, voiced))]
             IN  [m \in DOMAIN t_dst |-> IF f0_voiced[m] > 0 THEN f0_voiced[m] ELSE 0]

ResampleCall ==
    /\ call.fn = "_resample_f0_to_world_frames" /\ ~call.done
    /\ call' = [call EXCEPT !.done = TRUE,
                            !.ret = _resample_f0_to_world_frames(
                                        call.args.f0_src, call.args.t_src, call.args.t_dst)]
    /\ UNCHANGED <<workload, JOBS, req, thread, files, writers, lastRead>>

MaxFrames == 7

\* Resampled contours entering the clamp, long enough for the smoothing to be
\* applied: per frame 0 (unvoiced), 45 Hz (below the floor) or 55 Hz (just above
\* it), and flat contours at the ceiling of 1100 Hz and just above it.
ContourInputs ==
    UNION {[f0_new : [1..n -> {0, 45, 55}] \cup {[m \in 1..n |-> v] : v \in {1100, 1105}}] :
           n \in (MaxFrames - 1)..MaxFrames}

f0_floor == 50
f0_ceil == 1100

\* np.where((f0_new >= f0_floor) & (f0_new <= f0_ceil), f0_new, 0.0)
Clamp(f0_new) ==
    [m \in DOMAIN f0_new |->
        IF f0_new[m] >= f0_floor /\ f0_new[m] <= f0_ceil THEN f0_new[m] ELSE 0]

\* The taps 0.2, 0.6, 0.2 in fifths.
kernel == <<1, 3, 1>>

\* np.convolve(a, kernel, mode="same") for Len(a) >= 3: zeros beyond both ends.
convolve_same(a) ==
    [i \in DOMAIN a |->
        ( kernel[1] * (IF i + 1 \in DOMAIN a THEN a[i + 1] ELSE 0)
        + kernel[2] * a[i]
        + kernel[3] * (IF i - 1 \in DOMAIN a THEN a[i - 1] ELSE 0) ) \div 5]

SmoothAbove == 5

\* Lines 76-81: the voiced frames are gathered into one array, convolved, and
\* written back to their places.
Smooth(f0_new) ==
    LET voiced == {k \in DOMAIN f0_new : f0_new[k] > 0}
    IN  IF Cardinality(voiced) > SmoothAbove
        THEN LET conv == convolve_same(Pick(f0_new, voiced))
             IN  [m \in DOMAIN f0_new |->
                    IF m \in voiced
                    THEN conv[Cardinality({j \in voiced : j <= m})]
                    ELSE f0_new[m]]
        ELSE f0_new

\* The contour apply_f0_world hands to pw.synthesize.
SynthesisContour(f0_new) == Smooth(Clamp(f0_new))

ContourCall ==
    /\ call.fn = "apply_f0_world" /\ ~call.done
    /\ call' = [call EXCEPT !.done = TRUE,
                            !.ret = SynthesisContour(call.args.f0_new)]
    /\ UNCHANGED <<workload, JOBS, req, thread, files, writers, lastRead>>

\* Files of the conversion stage outside the job directory.
F_SVC_RAW == "so-vits-svc/raw/job_uuid.wav"
F_SVC_RESULT == "so-vits-svc/results/job_uuid.wav"

\* One separation: the window arguments and what the two commands do.
SeparateInputs ==
    [start_time : {NoneT, <<0>>, <<1>>}, end_time : {NoneT, <<1>>},
     trim : {"ok", "failed"}, demucs : {"ok", "failed", "no_instrumental"}]

\* seperate_stems_demucs on a file system fs that holds the input: the result
\* says whether it raised and which files exist afterwards.
seperate_stems_demucs(fs, a) ==
    IF ParseTimeRaises(a.start_time) \/ ParseTimeRaises(a.end_time)
      THEN [raised |-> TRUE, fs |-> fs]
    ELSE IF NeedsTrim(a.start_time, a.end_time)
              /\ (TrimWindowRaises(a.start_time, a.end_time) \/ a.trim = "failed")
      THEN [raised |-> TRUE, fs |-> fs]
    ELSE LET trimmed_input ==
                 IF NeedsTrim(a.start_time, a.end_time) THEN F_TRIMMED ELSE F_INPUT
             in_try ==
                 CASE a.demucs = "ok" -> fs \cup {trimmed_input, F_STEM_VOCALS, F_STEM_INST}
                   [] a.demucs = "failed" -> fs \cup {trimmed_input}
                   [] a.demucs = "no_instrumental" -> fs \cup {trimmed_input, F_STEM_VOCALS}
             finally ==
                 IF trimmed_input # F_INPUT THEN in_try \ {trimmed_input} ELSE in_try
         IN  [raised |-> a.demucs # "ok", fs |-> finally]

SeparateCall ==
    /\ call.fn = "seperate_stems_demucs" /\ ~call.done
    /\ call' = [call EXCEPT !.done = TRUE,
                            !.ret = seperate_stems_demucs({F_INPUT}, call.args)]
    /\ UNCHANGED <<workload, JOBS, req, thread, files, writers, lastRead>>

\* One conversion: what copyfile and inference_main.py do.
SovitsInputs ==
    [copyfile : {"ok", "failed"}, inference : {"ok", "failed", "no_output"}]

\* run_sovits_svc_41 on a file system fs that holds in_wav.
run_sovits_svc_41(fs, a) ==
    IF a.copyfile = "failed" THEN [raised |-> TRUE, fs |-> fs]
    ELSE LET in_try ==
                 CASE a.inference = "ok" -> fs \cup {F_SVC_RAW, F_SVC_RESULT, F_SVC}
                   [] a.inference = "failed" -> fs \cup {F_SVC_RAW}
                   [] a.inference = "no_output" -> fs \cup {F_SVC_RAW}
         IN  [raised |-> a.inference # "ok", fs |-> in_try \ {F_SVC_RAW}]

SovitsCall ==
    /\ call.fn = "run_sovits_svc_41" /\ ~call.done
    /\ call' = [call EXCEPT !.done = TRUE,
                            !.ret = run_sovits_svc_41({F_PROXY_FULL}, call.args)]
    /\ UNCHANGED <<workload, JOBS, req, thread, files, writers, lastRead>>

MaxListLen == 13

\* Which segments of a list of n have no text: none, one, two, or the first k.
EmptySets(n) ==
    {E \in SUBSET (1..n) : Cardinality(E) <= 2} \cup {1..k : k \in 0..n}

\* Segment lists for translate_segments: segment i carries the text "t<i>", or
\* an empty or whitespace text when it is in E. The translator is outside the
\* program: mute is the set of texts for which its decoded output is empty.
TranslateInputs ==
    UNION { UNION {[segments : {[i \in 1..n |->
                                   [start |-> i - 1, end |-> i,
                                    text |-> IF i \notin E THEN "t" \o ToString(i)
                                             ELSE IF i % 2 = 0 THEN "" ELSE "blank"]]},
                    target_language : {"Spanish"},
                    device : {"cpu", "mps"},
                    mute : {{}, {"t2"}}] : E \in EmptySets(n)} :
            n \in 0..MaxListLen}

BATCH_SIZE(device) == IF device = "mps" THEN 16 ELSE 12

\* tokenizer, model.generate, batch_decode and strip on one text.
Decode(text, target_language, mute) ==
    IF text \in mute THEN "" ELSE target_language \o ":" \o text

\* The batch loop of translate_segments from offset i on.
RECURSIVE TranslateBatches(_, _, _, _, _)
TranslateBatches(texts, i, size, target_language, mute) ==
    IF i >= Len(texts) THEN <<>>
    ELSE
      LET batch_texts == SubSeq(texts, i + 1, Min(i + size, Len(texts)))
          nonempty == {k \in DOMAIN batch_texts : batch_texts[k] # ""}
          to_translate == Pick(batch_texts, nonempty)
          decoded == [k \in DOMAIN to_translate |->
                         Decode(to_translate[k], target_language, mute)]
          \* it = iter(decoded): the k-th non-empty place takes the k-th item.
          reinserted == [k \in DOMAIN batch_texts |->
                            IF batch_texts[k] = "" THEN ""
                            ELSE decoded[Cardinality({j \in nonempty : j <= k})]]
          translations == IF to_translate = <<>>
                          THEN [k \in DOMAIN batch_texts |-> ""]
                          ELSE reinserted
      IN  translations \o TranslateBatches(texts, i + size, size, target_language, mute)

translate_segments(segments, target_language, device, mute) ==
    LET texts == [i \in DOMAIN segments |-> strip(segments[i].text)]
        translations == TranslateBatches(texts, 0, BATCH_SIZE(device), target_language, mute)
    IN  [i \in 1..Min(Len(segments), Len(translations)) |->
            [start |-> segments[i].start, end |-> segments[i].end,
             text |-> segments[i].text, translated |-> translations[i],
             language |-> target_language]]

TranslateCall ==
    /\ call.fn = "translate_segments" /\ ~call.done
    /\ call' = [call EXCEPT !.done = TRUE,
                            !.ret = translate_segments(call.args.segments,
                                        call.args.target_language, call.args.device,
                                        call.args.mute)]
    /\ UNCHANGED <<workload, JOBS, req, thread, files, writers, lastRead>>

Pending == [pending |-> TRUE]

\* Worker threads of concurrent jobs that synthesize the same text in the same
\* language: they share the cache file, each has its own out_wav and .raw.wav.
MaxCallers == 2
Callers == 1..MaxCallers

\* tts_to_wav, one step per statement that touches a file. A file is "absent",
\* "partial" (opened for writing, not all bytes written) or "complete".
TtsStart ==
    {[fn |-> "tts_to_wav", done |-> FALSE, args |-> [cached |-> c], ret |-> Pending,
      pc |-> [w \in Callers |-> "L163"],
      out_wav |-> [w \in Callers |-> "absent"],
      raw_out |-> [w \in Callers |-> "absent"],
      cache_file |-> IF c THEN "complete" ELSE "absent",
      copying |-> {}] : c \in BOOLEAN}

AllExited(pc) == \A w \in Callers : pc[w] \in {"returned", "raised"}

\* The caller moves to statement l; the call is over when every caller has left.
Goto(c, w, l) ==
    LET pc == [c.pc EXCEPT ![w] = l]
    IN  [c EXCEPT !.pc = pc, !.done = AllExited(pc)]

\* if cache_file.exists(): true for a file that is still being written.
CacheLookup(w) ==
    /\ call.fn = "tts_to_wav" /\ call.pc[w] = "L163"
    /\ call' = Goto(call, w, IF call.cache_file # "absent" THEN "L164" ELSE "L167")
    /\ UNCHANGED <<workload, JOBS, req, thread, files, writers, lastRead>>

\* shutil.copy2(cache_file, out_wav); return: the bytes present at that time.
CacheHit(w) ==
    /\ call.fn = "tts_to_wav" /\ call.pc[w] = "L164"
    /\ call' = [Goto(call, w, "returned") EXCEPT !.out_wav[w] = call.cache_file]
    /\ UNCHANGED <<workload, JOBS, req, thread, files, writers, lastRead>>

\* _get_tts_model, _get_default_speaker_wav and tts.tts_to_file: the raw file
\* is written, or one of them raises.
Synthesize(w) ==
    /\ call.fn = "tts_to_wav" /\ call.pc[w] = "L167"
    /\ \/ call' = [Goto(call, w, "L179") EXCEPT !.raw_out[w] = "complete"]
       \/ call' = Goto(call, w, "raised")
    /\ UNCHANGED <<workload, JOBS, req, thread, files, writers, lastRead>>

\* subprocess.run(ffmpeg ..., check=True): out_wav is written, or
\* CalledProcessError leaves the function.
Convert(w) ==
    /\ call.fn = "tts_to_wav" /\ call.pc[w] = "L179"
    /\ \/ call' = [Goto(call, w, "L196") EXCEPT !.out_wav[w] = "complete"]
       \/ call' = Goto(call, w, "raised")
    /\ UNCHANGED <<workload, JOBS, req, thread, files, writers, lastRead>>

\* raw_out.unlink(missing_ok=True)
UnlinkRaw(w) ==
    /\ call.fn = "tts_to_wav" /\ call.pc[w] = "L196"
    /\ call' = [Goto(call, w, "L198") EXCEPT !.raw_out[w] = "absent"]
    /\ UNCHANGED <<workload, JOBS, req, thread, files, writers, lastRead>>

\* shutil.copy2(out_wav, cache_file) opens the cache file for writing, which
\* creates or truncates it.
CacheStore(w) ==
    /\ call.fn = "tts_to_wav" /\ call.pc[w] = "L198"
    /\ call' = [Goto(call, w, "L198_copying") EXCEPT
                    !.cache_file = "partial", !.copying = @ \cup {w}]
    /\ UNCHANGED <<workload, JOBS, req, thread, files, writers, lastRead>>

\* The copy writes its last byte; the file is whole once no copy is under way.
CacheStoreDone(w) ==
    /\ call.fn = "tts_to_wav" /\ call.pc[w] = "L198_copying"
    /\ call' = [Goto(call, w, "returned") EXCEPT
                    !.copying = @ \ {w},
                    !.cache_file = IF call.copying \ {w} = {} THEN "complete" ELSE "partial"]
    /\ UNCHANGED <<workload, JOBS, req, thread, files, writers, lastRead>>

\* The process-wide lazily initialised models and their accessors.
LazyGetters ==
    {"transcribe_whisper._get_model", "translate_marianmt._get_model",
     "_get_tts_model", "_get_g2p"}

\* The global is None, or holds the instance some caller or the startup hook
\* constructed.
NoModel == 0
StartupModel == MaxCallers + 1

\* XTTS is loaded by the startup hook unless TTS_PREWARM is off or the warmup
\* failed; the other three globals start as None.
Prewarmed(g) == IF g = "_get_tts_model" THEN BOOLEAN ELSE {FALSE}

LazyStart ==
    UNION {{[fn |-> g, done |-> FALSE, args |-> [prewarmed |-> p], ret |-> Pending,
             pc |-> [w \in Callers |-> "check"],
             global |-> IF p THEN StartupModel ELSE NoModel,
             constructed |-> IF p THEN {StartupModel} ELSE {},
             got |-> [w \in Callers |-> NoModel],
             lock |-> NoModel] : p \in Prewarmed(g)} : g \in LazyGetters}

\* The first test of the global: if _model is None / in _MODEL_CACHE /
\* if _G2P is not None. Only _get_g2p goes on to take the lock.
LazyCheck(w) ==
    /\ call.fn \in LazyGetters /\ call.pc[w] = "check"
    /\ call' = Goto(call, w,
                    IF call.global # NoModel THEN "return_global"
                    ELSE IF call.fn = "_get_g2p" THEN "lock"
                    ELSE "construct")
    /\ UNCHANGED <<workload, JOBS, req, thread, files, writers, lastRead>>

\* with _LOCK: if _G2P is None
LazyLock(w) ==
    /\ call.fn = "_get_g2p" /\ call.pc[w] = "lock" /\ call.lock = NoModel
    /\ call' = IF call.global = NoModel
               THEN [Goto(call, w, "construct") EXCEPT !.lock = w]
               ELSE Goto(call, w, "return_global")
    /\ UNCHANGED <<workload, JOBS, req, thread, files, writers, lastRead>>

\* The constructor call and the assignment to the global; _get_g2p leaves the
\* with block.
LazyConstruct(w) ==
    /\ call.fn \in LazyGetters /\ call.pc[w] = "construct"
    /\ call' = [Goto(call, w, IF call.fn = "translate_marianmt._get_model"
                              THEN "return_local" ELSE "return_global")
                  EXCEPT !.constructed = @ \cup {w}, !.global = w, !.lock = NoModel]
    /\ UNCHANGED <<workload, JOBS, req, thread, files, writers, lastRead>>

\* return _model / return _MODEL_CACHE[model_name] read the global; the return
\* after construction in translate_marianmt returns the locals.
LazyReturn(w) ==
    /\ call.fn \in LazyGetters /\ call.pc[w] \in {"return_global", "return_local"}
    /\ call' = [Goto(call, w, "returned") EXCEPT
                    !.got[w] = IF call.pc[w] = "return_local" THEN w ELSE call.global]
    /\ UNCHANGED <<workload, JOBS, req, thread, files, writers, lastRead>>

LazyGet(w) ==
    \/ LazyCheck(w)
    \/ LazyLock(w)
    \/ LazyConstruct(w)
    \/ LazyReturn(w)

tts_to_wav(w) ==
    \/ CacheLookup(w)
    \/ CacheHit(w)
    \/ Synthesize(w)
    \/ Convert(w)
    \/ UnlinkRaw(w)
    \/ CacheStore(w)
    \/ CacheStoreDone(w)
CallInputs ==
    {[fn |-> "_slice_f0_window", done |-> FALSE, args |-> a, ret |-> Pending] :
        a \in {x \in SliceInputs : x.start_s < x.end_s}}
    \cup
    {[fn |-> "_stitch_segments_ffmpeg", done |-> FALSE, args |-> a, ret |-> Pending] :
        a \in StitchInputs}
    \cup
    {[fn |-> "time_stretch_to_duration", done |-> FALSE, args |-> a, ret |-> Pending] :
        a \in StretchInputs}
    \cup
    {[fn |-> "segments_to_ssml", done |-> FALSE, args |-> a, ret |-> Pending] :
        a \in SsmlInputs}
    \cup
    {[fn |-> "_resample_f0_to_world_frames", done |-> FALSE, args |-> a,
      ret |-> Pending] : a \in ResampleInputs}
    \cup
    {[fn |-> "apply_f0_world", done |-> FALSE, args |-> a,
      ret |-> Pending] : a \in ContourInputs}
    \cup
    {[fn |-> "seperate_stems_demucs", done |-> FALSE, args |-> a,
      ret |-> Pending] : a \in SeparateInputs}
    \cup
    {[fn |-> "run_sovits_svc_41", done |-> FALSE, args |-> a,
      ret |-> Pending] : a \in SovitsInputs}
    \cup
    {[fn |-> "translate_segments", done |-> FALSE, args |-> a,
      ret |-> Pending] : a \in TranslateInputs}
    \cup
    TtsStart
    \cup
    LazyStart

InitCalc ==
    /\ workload = "calc"
    /\ JOBS = [j \in {} |-> QueuedRecord("")]
    /\ req = [r \in AllSlots |-> IdleRequest]
    /\ thread = [r \in AllSlots |-> NoThread]
    /\ files = [j \in JobIds |-> {}]
    /\ writers = [j \in JobIds |-> {}]
    /\ lastRead = [job_id |-> 0, rec |-> NOT_FOUND]
    /\ call \in CallInputs

NextCalc ==
    \/ SliceCall
    \/ StitchCall
    \/ StretchCall
    \/ SsmlCall
    \/ ResampleCall
    \/ ContourCall
    \/ SeparateCall
    \/ SovitsCall
    \/ TranslateCall
    \/ \E w \in Callers : tts_to_wav(w)
    \/ \E w \in Callers : LazyGet(w)

SpecCalc == InitCalc /\ [][NextCalc]_vars

-----------------------------------------------------------------------------
(* Vocabulary of the properties *)

Terminal(rec) == rec.status \in {"done", "error"}

StatusOrder ==
    <<"queued", "separating", "transcribing", "translating", "proxy_tts", "svc", "mixing", "done">>

StatusIndex(status) == CHOOSE k \in 1..Len(StatusOrder) : StatusOrder[k] = status

UrlKeys == {"vocals_url", "instrumental_url", "mix_url"}

\* Temporary files of a stage, as opposed to the artifacts a stage leaves behind.
TempFiles == {F_TRIMMED}
Artifacts(f) == f \ TempFiles

Created == {r \in AllSlots : req[r].job_id # 0}

-----------------------------------------------------------------------------
(* C1 *)

ProgressInRange ==
    /\ \A j \in DOMAIN JOBS : JOBS[j].progress \in 0..100
    /\ "progress" \in DOMAIN lastRead.rec => lastRead.rec.progress \in 0..100

ProgressStep ==
    /\ \A j \in DOMAIN JOBS : j \in DOMAIN JOBS' /\ JOBS'[j].progress >= JOBS[j].progress
    /\ (lastRead'.job_id = lastRead.job_id /\ "progress" \in DOMAIN lastRead.rec)
         => /\ "progress" \in DOMAIN lastRead'.rec
            /\ lastRead'.rec.progress >= lastRead.rec.progress

\* C1: for every job, the progress of its record and the progress values that
\* successive get_job reads of it return never decrease, and every progress value
\* is an integer in 0..100; the write of the error handler does not lower it.
C1_ProgressMonotone == []ProgressInRange /\ [][ProgressStep]_vars

\* A poller has read a failed job whose progress stayed where the failure found it.
C1_Witness ==
    /\ lastRead.job_id \in DOMAIN JOBS
    /\ lastRead.rec.status = "error"
    /\ lastRead.rec.progress >= 75

-----------------------------------------------------------------------------
(* C2 *)

\* C2: once the status of a job record is done or error, no step of any thread or
\* request changes the record, so a terminal status is entered once and never left.
C2_TerminalIsFinal ==
    [][\A j \in DOMAIN JOBS :
          Terminal(JOBS[j]) => (j \in DOMAIN JOBS' /\ JOBS'[j] = JOBS[j])]_vars

\* Two jobs of one process have ended, one done and one in error.
C2_Witness ==
    \E j, k \in DOMAIN JOBS :
        /\ JOBS[j].status = "done"
        /\ JOBS[k].status = "error"
        /\ \A r \in Created : thread[r].pc = "exit"

-----------------------------------------------------------------------------
(* C3 *)

\* C3: every record create_job inserts reaches done or error: when the request
\* that inserted a record has ended and no worker of it is left to run, the
\* record is terminal.
C3_EveryJobEnds ==
    \A r \in Created :
        (req[r].pc \in {"returned", "failed"} /\ thread[r].pc \in {"none", "exit"})
            => Terminal(JOBS[req[r].job_id])

-----------------------------------------------------------------------------
(* C4 *)

ProxyStages ==
    {"proxy_tts"} \cup {ProxyStage(i, n) : i \in 0..(MaxSegs + 1), n \in 0..(MaxSegs + 1)}

StagesOf(status) == IF status = "proxy_tts" THEN ProxyStages ELSE {status}

Coherent(rec) == "stage" \in DOMAIN rec => rec.stage \in StagesOf(rec.status)

\* C4: status, stage and progress change together, so the record and every answer
\* of get_job carry a stage label that belongs to the status.
C4_AtomicTransition ==
    /\ \A j \in DOMAIN JOBS : Coherent(JOBS[j])
    /\ Coherent(lastRead.rec)

-----------------------------------------------------------------------------
(* C5 *)

StatusStep(old, new) ==
    \/ new = old
    \/ /\ new = "error"
       /\ old \notin {"done", "error"}
    \/ /\ old \notin {"done", "error"}
       /\ new # "error"
       /\ StatusIndex(new) = StatusIndex(old) + 1

\* C5: a record starts in queued, and every change of its status goes to the next
\* status of queued, separating, transcribing, translating, proxy_tts, svc, mixing,
\* done, or to error from a status that is neither done nor error.
C5_StatusOrder ==
    [][/\ \A j \in DOMAIN JOBS' \ DOMAIN JOBS : JOBS'[j].status = "queued"
       /\ \A j \in DOMAIN JOBS \cap DOMAIN JOBS' :
             StatusStep(JOBS[j].status, JOBS'[j].status)]_vars

\* A job failed in its last stage, after passing through every status before done.
C5_Witness == \E j \in DOMAIN JOBS : JOBS[j].status = "error" /\ JOBS[j].progress = 95

-----------------------------------------------------------------------------
(* C6 *)

ErrorIffStatus ==
    \A j \in DOMAIN JOBS :
        /\ "error" \in DOMAIN JOBS[j] => JOBS[j].status = "error"
        /\ JOBS[j].status = "error"
             => /\ JOBS[j].stage = "error"
                /\ "error" \in DOMAIN JOBS[j]
                /\ JOBS[j].error # ""

ErrorKeepsTheRest ==
    \A j \in DOMAIN JOBS \cap DOMAIN JOBS' :
        JOBS'[j].status = "error"
            => /\ Artifacts(files[j]) \subseteq files'[j]
               /\ \A key \in DOMAIN JOBS[j] \ {"status", "stage", "error"} :
                     /\ key \in DOMAIN JOBS'[j]
                     /\ JOBS'[j][key] = JOBS[j][key]

\* C6: a failed job has status and stage error and a non-empty error description,
\* and only a record in status error has an error field; the step that moves a job
\* to error, and every step after it, keeps all other fields of the record and
\* every artifact written under the job directory.
C6_ErrorKeepsPartialResults == []ErrorIffStatus /\ [][ErrorKeepsTheRest]_vars

\* A job failed in voice conversion: the record still has its segment counters and
\* its selected voice, and the stems and the proxy track are still on disk.
C6_Witness ==
    \E j \in DOMAIN JOBS :
        /\ JOBS[j].status = "error"
        /\ JOBS[j].progress = 88
        /\ {"selected_voice", "proxy_segments_done", "proxy_rendered_segments"}
              \subseteq DOMAIN JOBS[j]
        /\ {F_VOCALS, F_INST, F_PROXY_FULL} \subseteq files[j]

-----------------------------------------------------------------------------
(* C7 *)

\* C7: a record in status done has progress 100 and the three artifact URLs, and a
\* record in any other status has neither progress 100 nor any of the URLs.
C7_DoneIffComplete ==
    \A j \in DOMAIN JOBS :
        IF JOBS[j].status = "done"
          THEN JOBS[j].progress = 100 /\ UrlKeys \subseteq DOMAIN JOBS[j]
          ELSE JOBS[j].progress # 100 /\ UrlKeys \cap DOMAIN JOBS[j] = {}

\* One job is done with its final mix on disk while another is at the end of the
\* segment loop.
C7_Witness ==
    \E j, k \in DOMAIN JOBS :
        /\ JOBS[j].status = "done"
        /\ F_MIX \in files[j]
        /\ JOBS[k].status = "proxy_tts"
        /\ JOBS[k].progress = PROXY_TTS_PROGRESS_END

-----------------------------------------------------------------------------
(* C8 *)

UnsupportedLanguageErrors ==
    {Repr(Exc("ValueError", "Unsupported language: " \o language)) :
        language \in LanguageInputs("single")}
    \cup {Repr(Exc("ValueError", "Unsupported target_language=" \o language)) :
            language \in LanguageInputs("single")}

LanguageChecked ==
    /\ \A r \in AllSlots :
          (req[r].pc # "idle" /\ req[r].language \notin SUPPORTED_LANGUAGES)
              => /\ req[r].pc = "rejected"
                 /\ req[r].response = [code |-> 400, job_id |-> 0]
                 /\ req[r].job_id = 0
                 /\ thread[r].pc = "none"
    /\ \A j \in DOMAIN JOBS :
          /\ JOBS[j].target_language \in DOMAIN MARIAN_MODELS
          /\ ~TtsLanguageRaises(JOBS[j].target_language)
          /\ "error" \in DOMAIN JOBS[j] => JOBS[j].error \notin UnsupportedLanguageErrors

RejectionChangesNothing ==
    \A r \in AllSlots :
        (req'[r].pc = "rejected" /\ req[r].pc # "rejected")
            => /\ JOBS' = JOBS
               /\ thread' = thread
               /\ files' = files

\* C8: a request whose language is outside the supported set gets a 400 and no job
\* id, and its step leaves the job table, the threads and the files as they were;
\* the language of every record is accepted by translation and by TTS, so no job
\* fails with an unsupported-language error.
C8_UnsupportedLanguageRejected == []LanguageChecked /\ [][RejectionChangesNothing]_vars

\* One request was rejected for its language while the job of another request, in
\* a supported language, went through translation and TTS and is done.
C8_Witness ==
    /\ \E r \in AllSlots : req[r].pc = "rejected" /\ req[r].language = "Klingon"
    /\ \E j \in DOMAIN JOBS :
          /\ JOBS[j].status = "done"
          /\ "proxy_rendered_segments" \in DOMAIN JOBS[j]
          /\ JOBS[j].proxy_rendered_segments >= 1

-----------------------------------------------------------------------------
(* C9 *)

InvalidWindow(start_time, end_time) ==
    \/ start_time # NoneT /\ start_time[1] < 0
    \/ end_time # NoneT /\ end_time[1] < 0
    \/ start_time # NoneT /\ end_time # NoneT /\ end_time[1] <= start_time[1]

\* C9: a request with an invalid time window is rejected before a job exists: it
\* never owns a record of the job table.
C9_InvalidWindowRejected ==
    \A r \in AllSlots :
        (req[r].pc # "idle" /\ InvalidWindow(req[r].start_time, req[r].end_time))
            => req[r].job_id = 0

-----------------------------------------------------------------------------
(* C10 *)

WorkersIn(ws) == {w \in ws : w[1] = "job_worker"}
CreatorsIn(ws) == {w \in ws : w[1] = "create_job"}

\* C10: the record of a job is written by the create_job request that inserted it
\* and by the one worker thread that was started for it, and by no other thread.
C10_SingleWriter ==
    \A j \in JobIds :
        /\ j \notin DOMAIN JOBS => writers[j] = {}
        /\ \A w \in writers[j] : req[w[2]].job_id = j
        /\ \A w \in WorkersIn(writers[j]) : thread[w[2]].job_id = j
        /\ Cardinality(WorkersIn(writers[j])) <= 1
        /\ Cardinality(CreatorsIn(writers[j])) <= 1

\* Two jobs run at once and the worker of each has written its own record.
C10_Witness ==
    \E j, k \in DOMAIN JOBS :
        /\ j # k
        /\ WorkersIn(writers[j]) # {} /\ WorkersIn(writers[k]) # {}
        /\ ~Terminal(JOBS[j]) /\ ~Terminal(JOBS[k])

-----------------------------------------------------------------------------
(* C11 *)

\* The worker of request r is inside transcribe_with_whisper (app.py:132).
TranscriptionRunning(r) == thread[r].pc = "L132"
\* The worker of request r is inside translate_segments or extract_f0_pyworld
\* (app.py:135-138).
TranslationRunning(r) == thread[r].pc = "L135"

\* C11: progress checkpoints mark the end of stages: progress is below 50 while
\* transcription is still running and below 60 while translation is still
\* running (50 and 60 are reached only when these stages have completed).
C11_CheckpointAtStageEnd ==
    \A r \in AllSlots :
        /\ TranscriptionRunning(r) => JOBS[JobOf(r)].progress < 50
        /\ TranslationRunning(r) => JOBS[JobOf(r)].progress < 60

-----------------------------------------------------------------------------
(* C12 *)

\* C12: a failure of the speaker selection step never fails the job: no job
\* record is in status error because get_available_speakers or
\* select_closest_speaker raised.
C12_SpeakerSelectionNonFatal ==
    \A j \in DOMAIN JOBS :
        (JOBS[j].status = "error" /\ "error" \in DOMAIN JOBS[j])
            => JOBS[j].error # Repr(SpeakerSelectionError)

-----------------------------------------------------------------------------
(* C13 *)

\* C13: no stage blocks a job forever: when an external-process call of a worker
\* never returns, the job of that worker eventually reaches a terminal status.
C13_NoStageBlocksForever ==
    \A r \in AllSlots :
        (thread[r].pc = "hung")
            ~> (JobOf(r) \in DOMAIN JOBS /\ JOBS[JobOf(r)].status = "error")

-----------------------------------------------------------------------------
(* C14 *)

HasRecord(r) == JobOf(r) \in DOMAIN JOBS

\* The segment the loop of worker r processed last was rendered.
LastWasRendered(r) ==
    LET t == thread[r]
    IN  t.rendered # <<>> /\ t.rendered[Len(t.rendered)].seg = t.i

\* C14: when the F0 window of a segment has fewer than 3 voiced samples, the
\* rendered audio of the segment is the duration-fitted audio, byte for byte,
\* and the pitch transplant raises nothing (it is not invoked).
C14_FewVoicedPassThrough ==
    \A r \in AllSlots :
        LET t == thread[r]
        IN  /\ (LastWasRendered(r) /\ t.voiced < 3)
                  => t.rendered[Len(t.rendered)].audio = StretchAudio(t.i)
            /\ (HasRecord(r) /\ "error" \in DOMAIN JOBS[JobOf(r)]
                  /\ JOBS[JobOf(r)].error = Repr(PitchError))
                  => t.voiced >= 3

\* A job is done whose last segment had a window with one voiced sample and whose
\* rendered audio is the duration-fitted audio.
C14_Witness ==
    \E r \in AllSlots :
        /\ HasRecord(r) /\ JOBS[JobOf(r)].status = "done"
        /\ LastWasRendered(r) /\ thread[r].voiced = 1
        /\ thread[r].rendered[Len(thread[r].rendered)].audio = StretchAudio(thread[r].i)

-----------------------------------------------------------------------------
(* C15 *)

\* The translated text is empty, or becomes empty after clean_for_tts.
EmptyForTts(text) == strip(text) = "" \/ clean_for_tts(text) = ""

RenderedSegs(r) == {thread[r].rendered[k].seg : k \in DOMAIN thread[r].rendered}

\* C15: a segment whose text is empty, or empty after cleaning, is never
\* rendered and never raises the empty-text error of tts_to_wav; it still counts
\* as completed: after each iteration proxy_segments_done is the index of the
\* segment and progress is the checkpoint of that index.
C15_EmptyTextSkipped ==
    /\ \A j \in DOMAIN JOBS :
         "error" \in DOMAIN JOBS[j] => JOBS[j].error # Repr(EmptyTextError)
    /\ \A r \in AllSlots :
         LET t == thread[r]
             total == Len(t.segments)
         IN  (t.pc = "L165" /\ HasRecord(r)) =>
               /\ \A k \in 1..t.i : EmptyForTts(t.segments[k]) => k \notin RenderedSegs(r)
               /\ JOBS[JobOf(r)].proxy_segments_done = t.i
               /\ JOBS[JobOf(r)].progress = _proxy_tts_progress(t.i, total)
               /\ t.i >= 1 => JOBS[JobOf(r)].proxy_rendered_segments = Len(t.rendered)

\* The loop has passed an empty text and a text emptied by cleaning, rendered
\* neither, and the job went on to done.
C15_Witness ==
    \E r \in AllSlots :
        /\ HasRecord(r) /\ JOBS[JobOf(r)].status = "done"
        /\ \E k \in DOMAIN thread[r].segments : strip(thread[r].segments[k]) = ""
        /\ \E k \in DOMAIN thread[r].segments :
             strip(thread[r].segments[k]) # "" /\ clean_for_tts(thread[r].segments[k]) = ""
        /\ JOBS[JobOf(r)].proxy_segments_done = Len(thread[r].segments)
        /\ thread[r].rendered = <<>>

-----------------------------------------------------------------------------
(* C18 *)

\* C18: stitching an empty list of rendered segments is not an error: no job
\* fails on a mix of no inputs, and a job that is past the stitch with nothing
\* rendered has the one-second silent placeholder as its proxy_full.wav.
C18_EmptyStitchPlaceholder ==
    /\ \A j \in DOMAIN JOBS :
         "error" \in DOMAIN JOBS[j] => JOBS[j].error # Repr(EmptyMixError)
    /\ \A r \in AllSlots :
         (HasRecord(r) /\ thread[r].rendered = <<>>
            /\ JOBS[JobOf(r)].status \in {"svc", "mixing", "done"})
           => /\ thread[r].proxy_full = <<"anullsrc", 1>>
              /\ F_PROXY_FULL \in files[JobOf(r)]

\* No segment was transcribed, the placeholder was stitched and the job is done.
C18_Witness ==
    \E r \in AllSlots :
        /\ HasRecord(r) /\ JOBS[JobOf(r)].status = "done"
        /\ thread[r].segments = <<>>
        /\ thread[r].proxy_full = <<"anullsrc", 1>>
        /\ {F_PROXY_FULL, F_SVC, F_MIX} \subseteq files[JobOf(r)]

-----------------------------------------------------------------------------
(* C16 *)

Returned(fn) == call.fn = fn /\ call.done

\* The indices of the samples of a contour whose time lies in [start_s, end_s).
InWindow(t, start_s, end_s) == {k \in DOMAIN t : start_s <= t[k] /\ t[k] < end_s}
\* The j-th smallest member of a set of indices.
Nth(K, j) == CHOOSE k \in K : Cardinality({m \in K : m < k}) = j - 1

\* C16: for strictly increasing sample times and start_s < end_s,
\* _slice_f0_window returns exactly the samples with start_s <= t < end_s, in
\* their order, f0 and times of equal length, each time rebased to t - start_s,
\* so the returned times lie in [0, end_s - start_s) and strictly increase.
C16_WindowExact ==
    Returned("_slice_f0_window") =>
        LET a == call.args
            K == InWindow(a.t, a.start_s, a.end_s)
            out == call.ret
        IN  /\ Len(out.f0) = Cardinality(K)
            /\ Len(out.t) = Cardinality(K)
            /\ \A j \in 1..Cardinality(K) :
                 /\ out.f0[j] = a.f0[Nth(K, j)]
                 /\ out.t[j] = a.t[Nth(K, j)] - a.start_s
                 /\ 0 <= out.t[j] /\ out.t[j] < a.end_s - a.start_s
            /\ IsStrictlyIncreasing(out.t)

\* A window that keeps the sample at start_s and drops the sample at end_s and a
\* sample before start_s.
C16_Witness ==
    /\ Returned("_slice_f0_window")
    /\ \E k \in DOMAIN call.args.t : call.args.t[k] = call.args.start_s
    /\ \E k \in DOMAIN call.args.t : call.args.t[k] = call.args.end_s
    /\ \E k \in DOMAIN call.args.t : call.args.t[k] < call.args.start_s
    /\ Len(call.ret.t) >= 2
    /\ call.ret.t[1] = 0

-----------------------------------------------------------------------------
(* C17 *)

\* The whole milliseconds of a start time, negative starts clamped to 0.
WholeMs(start) ==
    IF start < 0 THEN 0
    ELSE CHOOSE d \in 0..start : 2 * d <= start /\ start < 2 * (d + 1)

\* The windows [from, to) of the segments on a timeline of milliseconds.
Windows(rendered) ==
    [i \in DOMAIN rendered |->
        [from |-> WholeMs(rendered[i].start),
         to |-> WholeMs(rendered[i].start) + rendered[i].len]]

\* Millisecond m of the timeline (the m-th, counted from 1) lies in window w.
InSegment(w, m) == w.from < m /\ m <= w.to

NonOverlapping(windows) ==
    \A i, j \in DOMAIN windows :
        i # j => (windows[i].to <= windows[j].from \/ windows[j].to <= windows[i].from)

\* C17: _stitch_segments_ffmpeg delays each rendered segment by its start time
\* in whole milliseconds (a negative start by 0); for non-overlapping segments
\* the stitched track carries, in the window of each segment, the samples of
\* that segment at their own level, and silence everywhere else.
C17_StitchPlacement ==
    (Returned("_stitch_segments_ffmpeg") /\ call.args # <<>>) =>
        LET rendered == call.args
            windows == Windows(rendered)
            cmd == call.ret.cmd
            track == call.ret.out.track
        IN  /\ cmd.inputs = Len(rendered)
            /\ \A i \in DOMAIN rendered : cmd.adelay[i] = windows[i].from
            /\ ~call.ret.out.raised
            /\ NonOverlapping(windows) =>
                 /\ \A i \in DOMAIN rendered :
                      /\ windows[i].to <= Len(track)
                      /\ \A m \in (windows[i].from + 1)..windows[i].to :
                           track[m] = SampleOf(i)
                 /\ \A m \in 1..Len(track) :
                      (~\E i \in DOMAIN rendered : InSegment(windows[i], m))
                          => track[m] = 0

\* The example of the stitching test: segments at 0.0 s and 2.0 s of one second
\* each give sound in [0,1) and [2,3) and silence in [1,2).
C17_Witness ==
    /\ Returned("_stitch_segments_ffmpeg")
    /\ call.args = StitchExample
    /\ Len(call.ret.out.track) = 3000
    /\ call.ret.out.track[1] = 10 /\ call.ret.out.track[1000] = 10
    /\ call.ret.out.track[1001] = 0 /\ call.ret.out.track[2000] = 0
    /\ call.ret.out.track[2001] = 20 /\ call.ret.out.track[3000] = 20

-----------------------------------------------------------------------------
(* C19 *)

\* C19: when the duration of the input is within 5 ms of max(min_dur, target),
\* time_stretch_to_duration invokes no stretch and its output is the input,
\* byte for byte; fitting that output to the same target again returns it
\* unchanged.
C19_PassThroughNoOp ==
    Returned("time_stretch_to_duration") =>
        LET in_wav == call.args.in_wav
            target == call.args.target_dur_s
            fitted == IF target >= 20 THEN target ELSE 20
        IN  (in_wav.dur - fitted < 5 /\ fitted - in_wav.dur < 5) =>
              /\ ~call.ret.raised
              /\ call.ret.filters = <<>>
              /\ call.ret.out_wav = <<in_wav>>
              /\ time_stretch_to_duration(call.ret.out_wav[1], target) = call.ret

\* A pass-through of an input that is not of the target duration and not in the
\* layout a stretch would give it.
C19_Witness ==
    /\ Returned("time_stretch_to_duration")
    /\ call.args.in_wav.dur = 44 /\ call.args.target_dur_s = 40
    /\ call.args.in_wav.ar = 22050
    /\ call.ret.out_wav = <<call.args.in_wav>>

-----------------------------------------------------------------------------
(* C20 *)

VoiceParts(ssml) == {k \in DOMAIN ssml : ssml[k].tag = "voice"}
BreakParts(ssml) == {k \in DOMAIN ssml : ssml[k].tag = "break"}

\* C20: for segments that all have a translated text and a pause passed as the
\* number p, segments_to_ssml returns a document wrapped in <speak>...</speak>
\* with one voice element per segment, in the language of the segment or else
\* global_lang, and a break of p seconds between segments.
C20_SsmlWithPause ==
    (/\ Returned("segments_to_ssml")
     /\ call.args.pause_between.kind = "float"
     /\ call.args.segments # <<>>
     /\ \A k \in DOMAIN call.args.segments : call.args.segments[k].translated # "")
    => LET a == call.args
           ssml == call.ret.ssml
       IN  /\ call.ret.raised = ""
           /\ Len(ssml) >= 2
           /\ ssml[1].tag = "<speak>" /\ ssml[Len(ssml)].tag = "</speak>"
           /\ Cardinality(VoiceParts(ssml)) = Len(a.segments)
           /\ \A j \in 1..Len(a.segments) :
                ssml[Nth(VoiceParts(ssml), j)].lang
                    = Or(a.segments[j].language, a.global_lang)
           /\ Len(a.segments) >= 2 =>
                \E k \in BreakParts(ssml) : ssml[k].time = a.pause_between.seconds

-----------------------------------------------------------------------------
(* C21 *)

RECURSIVE ProductOf(_, _, _)
ProductOf(filters, field, n) ==
    IF n = 0 THEN 1 ELSE filters[n][field] * ProductOf(filters, field, n - 1)

IsBoundary(factor, num, den) == factor.num = num /\ factor.den = den

\* C21: for every positive ratio of the current duration to
\* max(min_dur, target), the chain time_stretch_to_duration builds is zero or
\* more boundary factors, all 2.0 or all 0.5, followed by exactly one final
\* factor; every factor lies in [0.5, 2.0] and the product of the factors is the
\* ratio.
C21_AtempoChain ==
    Returned("time_stretch_to_duration") =>
        LET current == call.args.in_wav.dur
            target == call.args.target_dur_s
            fitted == IF target >= 20 THEN target ELSE 20
            filters == call.ret.filters
            n == Len(filters)
            stretched == current > 0 /\ call.ret.out_wav # <<call.args.in_wav>>
        IN  /\ (current > 0 /\ ~(current - fitted < 5 /\ fitted - current < 5))
                  => stretched
            /\ stretched =>
                 /\ n >= 1
                 /\ \/ \A k \in 1..(n - 1) : IsBoundary(filters[k], 2, 1)
                    \/ \A k \in 1..(n - 1) : IsBoundary(filters[k], 1, 2)
                 /\ \A k \in 1..n :
                      /\ filters[k].den <= 2 * filters[k].num
                      /\ filters[k].num <= 2 * filters[k].den
                 /\ ProductOf(filters, "num", n) * fitted
                      = ProductOf(filters, "den", n) * current

\* Ratio 10 (200 ms to 20 ms): three factors of 2.0 and a final 1.25.
C21_Witness ==
    /\ Returned("time_stretch_to_duration")
    /\ call.args.in_wav.dur = 200 /\ call.args.target_dur_s = 20
    /\ Len(call.ret.filters) = 4
    /\ \A k \in 1..3 : IsBoundary(call.ret.filters[k], 2, 1)

\* Ratio 0.1 (5 ms to 50 ms): factors of 0.5 and a final factor.
C21_WitnessSlow ==
    /\ Returned("time_stretch_to_duration")
    /\ call.args.in_wav.dur = 5 /\ call.args.target_dur_s = 50
    /\ Len(call.ret.filters) >= 3
    /\ IsBoundary(call.ret.filters[1], 1, 2)

-----------------------------------------------------------------------------
(* C22 *)

\* C22: every successful return of time_stretch_to_duration leaves an output in
\* the canonical layout, mono at 16 kHz, whatever the layout of the input,
\* the pass-through branch included.
C22_CanonicalLayout ==
    (Returned("time_stretch_to_duration") /\ ~call.ret.raised) =>
        /\ call.ret.out_wav[1].ar = 16000
        /\ call.ret.out_wav[1].ac = 1

-----------------------------------------------------------------------------
(* C23 *)

\* Largest segment count for which the checkpoint function is tabulated.
MaxTotal == 8

\* p is round(75 + 12 * k / N): the nearest integer, a tie going to the even one.
IsRounded(p, k, N) ==
    LET twice == 2 * (p * N - (75 * N + 12 * k))
    IN  \/ -N < twice /\ twice < N
        \/ (twice = N \/ twice = -N) /\ p % 2 = 0

\* The checkpoint of k completed segments out of N, as the claim states it.
IsCheckpoint(p, k, N) ==
    IF N = 0 THEN p = 87
    ELSE /\ IsRounded(p, k, N)
         /\ 75 <= p /\ p <= 87
         /\ k = 0 => p = 75
         /\ k = N => p = 87

\* _proxy_tts_progress is the checkpoint for every k <= N and does not decrease
\* with k.
CheckpointTable ==
    \A N \in 0..MaxTotal : \A k \in 0..N :
        /\ IsCheckpoint(_proxy_tts_progress(k, N), k, N)
        /\ k >= 1 => _proxy_tts_progress(k - 1, N) <= _proxy_tts_progress(k, N)

\* The segments of the job of worker r and how many its loop has completed.
SegmentsTotal(r) == Len(thread[r].segments)
SegmentsDone(r) == thread[r].i

\* C23 as stated: whenever the status is proxy_tts, with N segments of which k
\* are completed, progress is the checkpoint of k out of N (87 when N = 0).
C23_ProxyProgressAlways ==
    \A r \in AllSlots :
        (HasRecord(r) /\ JOBS[JobOf(r)].status = "proxy_tts") =>
            IsCheckpoint(JOBS[JobOf(r)].progress, SegmentsDone(r), SegmentsTotal(r))

\* C23, amended: from the update that starts the segment loop on, a record in
\* status proxy_tts carries proxy_segments_total = N and proxy_segments_done = k,
\* its progress is the checkpoint of k out of N (87 when N = 0), and
\* proxy_rendered_segments, once written, is at most k, which is at most N;
\* before that update (app.py:146) the progress is 75 whatever N is.
C23_ProxyProgress ==
    /\ CheckpointTable
    /\ \A r \in AllSlots :
         (HasRecord(r) /\ JOBS[JobOf(r)].status = "proxy_tts") =>
            LET rec == JOBS[JobOf(r)]
            IN  IF "proxy_segments_total" \notin DOMAIN rec
                  THEN rec.progress = 75 /\ thread[r].pc = "L147"
                ELSE /\ rec.proxy_segments_total = SegmentsTotal(r)
                     /\ rec.proxy_segments_done = SegmentsDone(r)
                     /\ IsCheckpoint(rec.progress, rec.proxy_segments_done,
                                     rec.proxy_segments_total)
                     /\ rec.proxy_segments_done <= rec.proxy_segments_total
                     /\ "proxy_rendered_segments" \in DOMAIN rec =>
                          rec.proxy_rendered_segments <= rec.proxy_segments_done

\* A job without segments stands at 87 in status proxy_tts, and another record
\* shows one of two segments completed at 81 with nothing rendered.
C23_Witness ==
    \E r \in AllSlots :
        /\ HasRecord(r) /\ JOBS[JobOf(r)].status = "proxy_tts"
        /\ "proxy_rendered_segments" \in DOMAIN JOBS[JobOf(r)]
        /\ JOBS[JobOf(r)].proxy_segments_total = 2
        /\ JOBS[JobOf(r)].proxy_segments_done = 1
        /\ JOBS[JobOf(r)].proxy_rendered_segments = 0
        /\ JOBS[JobOf(r)].progress = 81

-----------------------------------------------------------------------------
(* C24 *)

\* Time x lies on an unvoiced target sample, or between two neighbouring
\* unvoiced target samples.
InUnvoicedRun(x, f0_src, t_src) ==
    \/ \E k \in DOMAIN t_src : t_src[k] = x /\ f0_src[k] = 0
    \/ \E k \in 1..(Len(t_src) - 1) :
         /\ t_src[k] < x /\ x < t_src[k + 1]
         /\ f0_src[k] = 0 /\ f0_src[k + 1] = 0

\* C24: _resample_f0_to_world_frames keeps unvoiced target frames at 0: an
\* output frame on or inside a run of unvoiced target samples is 0, also between
\* two voiced samples; with fewer than 2 voiced target samples the output is all
\* zeros; the output has the length of the frame grid.
C24_UnvoicedStaysZero ==
    Returned("_resample_f0_to_world_frames") =>
        LET a == call.args
            out == call.ret
        IN  /\ Len(out) = Len(a.t_dst)
            /\ Cardinality({k \in DOMAIN a.f0_src : a.f0_src[k] > 0}) < 2
                 => \A m \in DOMAIN out : out[m] = 0
            /\ \A m \in DOMAIN out :
                 InUnvoicedRun(a.t_dst[m], a.f0_src, a.t_src) => out[m] = 0

-----------------------------------------------------------------------------
(* C25 *)

\* C25: the contour apply_f0_world hands to resynthesis, after clamping and
\* smoothing, is at every frame either 0 or a frequency within
\* [f0_floor, f0_ceil], the first and last voiced frames included.
C25_ContourInRange ==
    Returned("apply_f0_world") =>
        \A m \in DOMAIN call.ret :
            \/ call.ret[m] = 0
            \/ f0_floor <= call.ret[m] /\ call.ret[m] <= f0_ceil

-----------------------------------------------------------------------------
(* C26 *)

\* The contiguous voiced run of contour f around frame m.
RunOf(f, m) ==
    {k \in DOMAIN f : \A j \in Min(k, m)..Max(k, m) : f[j] > 0}

\* Contour f with every voiced frame outside the run of m set to v.
OtherRunsSetTo(f, m, v) ==
    [k \in DOMAIN f |-> IF f[k] > 0 /\ k \notin RunOf(f, m) THEN v ELSE f[k]]

\* C26: the smoothing leaves every unvoiced frame at 0, keeps the set of voiced
\* frames, and the smoothed value of a voiced frame does not depend on the
\* frames of another voiced run: changing those leaves it the same.
C26_SmoothingKeepsBoundaries ==
    Returned("apply_f0_world") =>
        LET clamped == Clamp(call.args.f0_new)
            out == call.ret
        IN  /\ \A m \in DOMAIN clamped : clamped[m] = 0 <=> out[m] = 0
            /\ \A m \in DOMAIN clamped :
                 clamped[m] > 0 =>
                    \A v \in {55, 1100} :
                        Smooth(OtherRunsSetTo(clamped, m, v))[m] = out[m]

-----------------------------------------------------------------------------
(* C27 *)

\* C27: every temporary file a stage creates (the trimmed input of separation,
\* the copy in the so-vits raw directory, the .raw.wav of TTS) is gone when the
\* stage has been left, by return or by exception, and the stage's input file
\* is still there.
C27_TempFilesRemoved ==
    /\ Returned("seperate_stems_demucs")
         => F_TRIMMED \notin call.ret.fs /\ F_INPUT \in call.ret.fs
    /\ Returned("run_sovits_svc_41")
         => F_SVC_RAW \notin call.ret.fs /\ F_PROXY_FULL \in call.ret.fs
    /\ call.fn = "tts_to_wav"
         => \A w \in Callers :
                call.pc[w] \in {"returned", "raised"} => call.raw_out[w] = "absent"

-----------------------------------------------------------------------------
(* C30 *)

\* C30: with concurrent tts_to_wav calls for the same text and language, every
\* out_wav delivered by a call that returned is a complete waveform, and once
\* all calls have returned the cache holds one complete entry.
C30_CacheDeliversComplete ==
    call.fn = "tts_to_wav" =>
        /\ \A w \in Callers : call.pc[w] = "returned" => call.out_wav[w] = "complete"
        /\ (\A w \in Callers : call.pc[w] = "returned") => call.cache_file = "complete"

-----------------------------------------------------------------------------
(* C28 *)

\* C28: each lazily initialised model is constructed at most once per process,
\* also when several workers reach its first use together, and every caller
\* that has returned holds that one instance.
C28_ConstructedOnce ==
    call.fn \in LazyGetters =>
        /\ Cardinality(call.constructed) <= 1
        /\ \A w, v \in Callers :
               call.pc[w] = "returned" /\ call.pc[v] = "returned"
                   => call.got[w] = call.got[v]

-----------------------------------------------------------------------------
(* C29 *)

\* C29: translate_segments returns a list of the same length and order, output
\* i keeps start, end and text of input i and carries the target language,
\* translated is "" exactly when the text of input i is empty or whitespace,
\* and a translation is never attached to another index than its text's.
C29_TranslationAligned ==
    Returned("translate_segments") =>
        LET a == call.args
            out == call.ret
        IN  /\ Len(out) = Len(a.segments)
            /\ \A i \in DOMAIN out :
                 /\ out[i].start = a.segments[i].start
                 /\ out[i].end = a.segments[i].end
                 /\ out[i].text = a.segments[i].text
                 /\ out[i].language = a.target_language
                 /\ out[i].translated = "" <=> strip(a.segments[i].text) = ""
                 /\ out[i].translated # ""
                      => out[i].translated
                           = Decode(strip(a.segments[i].text), a.target_language, a.mute)

====
